---- MODULE Spec2Model ----
(***************************************************************************)
(* Validation chains of smithblack-0/jax_validation.                       *)
(*                                                                         *)
(* The specifications share the variables below.                           *)
(*   Spec     chain construction: Validator.__new__ (the interner) and     *)
(*            Validator.append / __and__ acting on the process-wide        *)
(*            _validator_cache.                                            *)
(*   SpecRun  one call of a chain on an operand, for each of the engines   *)
(*            found in the sources.                                        *)
(*   SpecSink the callback registry of state.py and its context managers.  *)
(*   SpecThreads  two threads constructing validators at the same time.    *)
(*   SpecAlgebra  append, insert, traversal, the pytree round trip and     *)
(*            the caches of the list classes, applied to three given       *)
(*            chains.                                                      *)
(*   SpecRunFair  SpecRun with the steps of a call taken to completion.    *)
(*   SpecScoped   an executor made and called among the scopes of the      *)
(*            callback registry.                                           *)
(*   SpecScopeThreads  two threads, each with a scope of its own.          *)
(*   SpecTensor   the mutable chains of tensor_validator.py.               *)
(*                                                                         *)
(* Python's builtin hash is modelled by what it provably does: an int      *)
(* hashes to itself except -1, which hashes to -2; the hash of a tuple is  *)
(* a function of the hashes of its items and is taken to be injective in   *)
(* them (64-bit mixing collisions are not modelled).  jax.lax.cond and     *)
(* jax.lax.switch are modelled as the selection of one branch, and         *)
(* jax.debug.callback / io_callback as a call of the callback.             *)
(***************************************************************************)
EXTENDS Integers, Sequences, FiniteSets, TLC

VARIABLES
    heap,       \* the Validator instances ever created: id -> fields
    cache,      \* _validator_cache: cache_id -> instance id
    built,      \* every call of __new__ so far: request and returned instance
    lastOp,     \* the latest construction or append, with its arguments
    nOps,       \* number of operations performed
    run,        \* the state of the current call of a chain
    sink,       \* state.py: the registered callbacks and the context managers
    thr,        \* threads that are inside Validator.__new__
    objs,       \* the attributes __init__ has set on each instance
    exe         \* core.py: the instances whose _validate holds an executor,
                \* and the contents of the caches of its classes

vars == <<heap, cache, built, lastOp, nOps, run, sink, thr, objs, exe>>

None == 0

\* bound on the number of construction/append operations
MaxOps == 4

\* bound on the length of the chain a run is started on
MaxChain == 3

-----------------------------------------------------------------------------
(* Node classes and constructor arguments used for construction.           *)

BuildClasses == {"Positive", "Even", "WithInit"}

\* the argument lists each class is constructed with: Positive and Even take
\* no argument, WithInit takes one int leaf
BuildArgs(cls) == IF cls = "WithInit" THEN {<<-1>>, <<-2>>} ELSE {<<>>}

\* builtin hash on an int leaf (CPython: hash(-1) == -2, otherwise the value)
PyHash(x) == IF x = -1 THEN -2 ELSE x

\* tree_flatten((args, kwargs)): the treedef is given by the number of
\* leaves here, the leaves are the arguments themselves
TreeDef(args) == Len(args)

\* a plausible slip: the key depends on something that is not structural
\* (here the number of live instances, as an identity-based hash would)
CreateHashSalted(h, cls, args, nxt) ==
    <<[td |-> TreeDef(args) + Len(h),
       leaves |-> [i \in 1..Len(args) |-> PyHash(args[i])],
       cls |-> cls]>>
    \o (IF nxt = None THEN <<>> ELSE h[nxt].hash_value)

\* Validator._create_hash: a key made of the treedef, the hashed tuple of
\* leaves, the class identifier and, when present, hash(next_validator),
\* which is next_validator.hash_value (__hash__).
CreateHash(h, cls, args, nxt) ==
    <<[td |-> TreeDef(args),
       leaves |-> [i \in 1..Len(args) |-> PyHash(args[i])],
       cls |-> cls]>>
    \o (IF nxt = None THEN <<>> ELSE h[nxt].hash_value)

\* Validator._check_list_length
RECURSIVE CheckListLength(_, _)
CheckListLength(h, nxt) ==
    IF nxt = None THEN 1 ELSE CheckListLength(h, h[nxt].next_validator) + 1

\* a plausible slip: the new instance is returned but never stored
NewNoStore(st, cls, args, nxt) ==
    LET cache_id == CreateHash(st.heap, cls, args, nxt)
        new == Len(st.heap) + 1
    IN IF cache_id \in DOMAIN st.cache
       THEN [st EXCEPT !.res = st.cache[cache_id],
                       !.built = @ \cup {[cls |-> cls, args |-> args, next |-> nxt,
                                          res |-> st.cache[cache_id]]}]
       ELSE [st EXCEPT !.heap = Append(@, [cls |-> cls, args |-> args,
                                           next_validator |-> nxt,
                                           hash_value |-> cache_id,
                                           list_length |-> CheckListLength(st.heap, nxt)]),
                       !.res = new,
                       !.built = @ \cup {[cls |-> cls, args |-> args, next |-> nxt,
                                          res |-> new]}]

\* a plausible slip: a bounded cache that makes room on a miss by dropping
\* what it holds
NewEvicting(st, cls, args, nxt) ==
    LET cache_id == CreateHash(st.heap, cls, args, nxt)
        new == Len(st.heap) + 1
    IN IF cache_id \in DOMAIN st.cache
       THEN [st EXCEPT !.res = st.cache[cache_id],
                       !.built = @ \cup {[cls |-> cls, args |-> args, next |-> nxt,
                                          res |-> st.cache[cache_id]]}]
       ELSE [st EXCEPT !.heap = Append(@, [cls |-> cls, args |-> args,
                                           next_validator |-> nxt,
                                           hash_value |-> cache_id,
                                           list_length |-> CheckListLength(st.heap, nxt)]),
                       !.cache = (cache_id :> new),
                       !.res = new,
                       !.built = @ \cup {[cls |-> cls, args |-> args, next |-> nxt,
                                          res |-> new]}]

\* Validator.__new__(cls, *args, _next_validator=nxt) on the state
\* st = [heap, cache, built, res]; res is the returned instance.
New(st, cls, args, nxt) ==
    LET cache_id == CreateHash(st.heap, cls, args, nxt)
        new == Len(st.heap) + 1
    IN IF cache_id \in DOMAIN st.cache
       THEN \* cache hit: the existing instance is returned untouched
            [st EXCEPT !.res = st.cache[cache_id],
                       !.built = @ \cup {[cls |-> cls, args |-> args, next |-> nxt,
                                          res |-> st.cache[cache_id]]}]
       ELSE \* cache miss: create, attach fields, cache
            [st EXCEPT !.heap = Append(@, [cls |-> cls, args |-> args,
                                           next_validator |-> nxt,
                                           hash_value |-> cache_id,
                                           list_length |-> CheckListLength(st.heap, nxt)]),
                       !.cache = @ @@ (cache_id :> new),
                       !.res = new,
                       !.built = @ \cup {[cls |-> cls, args |-> args, next |-> nxt,
                                          res |-> new]}]

\* the __init__ installed by __init_subclass__ on instance n: _next_validator
\* is dropped and the user's __init__ runs with the other arguments; the
\* __init__ of WithInit keeps its argument in an attribute, a class without
\* __init__ sets nothing; inits counts the runs of __init__ on the instance
UserInit(o, h, n, args) ==
    [i \in 1..Len(h) |->
        IF i = n
        THEN [item |-> args, inits |-> IF i <= Len(o) THEN o[i].inits + 1 ELSE 1]
        ELSE IF i <= Len(o) THEN o[i] ELSE [item |-> <<>>, inits |-> 0]]

\* cls(*args, _next_validator=nxt), i.e. type.__call__: __new__, then
\* __init__ on what __new__ returned, which is an instance of cls on a
\* cache hit as well
Call(st, cls, args, nxt) ==
    LET s == New(st, cls, args, nxt)
    IN [s EXCEPT !.objs = UserInit(s.objs, s.heap, s.res, args)]

\* a plausible slip: the receiver's own continuation is not rebuilt, the
\* appended chain is linked right behind the receiver's head
AppendShallow(st, self, validator) ==
    Call(st, st.heap[self].cls, st.heap[self].args, validator)

\* a plausible slip: the tail's continuation is assigned in place and the
\* receiver itself is returned
RECURSIVE AppendInPlace(_, _, _)
AppendInPlace(st, self, validator) ==
    IF st.heap[self].next_validator # None
    THEN [AppendInPlace(st, st.heap[self].next_validator, validator)
             EXCEPT !.res = self]
    ELSE [st EXCEPT !.heap[self].next_validator = validator, !.res = self]

\* Validator.append(self, validator): rebuild from the tail inward
RECURSIVE AppendTo(_, _, _)
AppendTo(st, self, validator) ==
    LET args == st.heap[self].args
        nv == st.heap[self].next_validator
        st1 == IF nv # None THEN AppendTo(st, nv, validator) ELSE st
        next_validator == IF nv # None THEN st1.res ELSE validator
    IN Call(st1, st.heap[self].cls, args, next_validator)

\* the (class, constructor arguments) sequence of a chain, head to tail
\* (Validator.walk with f = make_node_spec)
RECURSIVE WalkUpTo(_, _, _)
WalkUpTo(h, n, k) ==
    IF n = None \/ k = 0 THEN <<>>
    ELSE <<[cls |-> h[n].cls, args |-> h[n].args]>>
         \o WalkUpTo(h, h[n].next_validator, k - 1)

Walk(h, n) == WalkUpTo(h, n, Len(h))

\* the node reached after k continuation links
RECURSIVE Follow(_, _, _)
Follow(h, n, k) == IF k = 0 \/ n = None THEN n ELSE Follow(h, h[n].next_validator, k - 1)

Nodes == 1..Len(heap)

\* the instances of a chain, head to tail
Links(h, n) == [i \in 1..Len(Walk(h, n)) |-> Follow(h, n, i - 1)]

NoExc == [origin |-> None, kind |-> "none"]

NoFault == [cls |-> "", beh |-> "", kind |-> "none"]

\* no call in progress
IdleRun == [pc |-> "idle", impl |-> "", head |-> None, cur |-> None,
            operand |-> 0, kwargs |-> [suppress_errors |-> FALSE],
            passed |-> FALSE, cases |-> <<>>,
            handlers |-> <<>>, err |-> NoExc, trace |-> <<>>,
            outcome |-> "none", fault |-> NoFault,
            returned |-> [type |-> "unset", val |-> None], cause |-> NoExc]

State == [heap |-> heap, cache |-> cache, built |-> built, res |-> None,
          objs |-> objs]

\* the two callback registries of StateData
Kinds == {"exception", "success"}

NoLast == [op |-> "none", m |-> 0, kind |-> "", before |-> None,
           raised |-> FALSE, reentered |-> FALSE]

\* StateData() at import: no callback registered, no manager made, no
\* with-block open
IdleSink == [final_callback |-> None, success_callback |-> None,
             mgr |-> <<>>, stack |-> <<>>, raising |-> FALSE, reentry |-> FALSE,
             last |-> NoLast]

Threads == {1, 2}

NoRequest == [cls |-> "", args |-> <<>>, next |-> None]

\* no thread is inside __new__
\* no ValdationExecuter has been made: _validate is None on every instance
\* and LogicNodesCache is empty; so are the caches of the list classes
NoExecuters == [validate |-> {}, LogicNodes |-> <<>>, LogicNodesCache |-> {},
                ListNodeAttr |-> {},
                callbacks |-> [made |-> FALSE, final_exception_callback |-> None,
                               final_success_callback |-> None],
                LinkAttrCache |-> [length |-> {}, key |-> {}, as_list |-> {}]]

\* Cache.create_unique_id(constructor, *args): the constructor with the
\* flattened arguments; a SubclassMethodsInterface and a LogicNode are
\* leaves, compared by identity
CreateUniqueId(constructor, nodes, subnode) ==
    [constructor |-> constructor, nodes |-> nodes, subnode |-> subnode]

\* the keys of a cache
CacheKeys(c) == {entry.key : entry \in c}

\* a plausible slip: the key is set up whether it is present or not
CacheHitNever(c, cache_id) == FALSE

\* Cache.fetch: jax.lax.cond(cache_id in self.cache, no_op, setup_key_in_cache)
\* takes no_op when the key is present
CacheHit(c, cache_id) == cache_id \in CacheKeys(c)

\* self.cache[cache_id]
CacheGet(c, cache_id) == (CHOOSE entry \in c : entry.key = cache_id).instance

\* LogicNode.__init__(subclass_bindings, next_node) on a new object
NewLogicNode(e, kind, ref, next_node) ==
    [e EXCEPT !.LogicNodes =
                 Append(@, [subclass_functions |-> [kind |-> kind, ref |-> ref],
                            next_node |-> next_node])]

\* self.cache[key] = instance
CacheStore(e, cache_id, instance) ==
    [e EXCEPT !.LogicNodesCache =
                 {entry \in @ : entry.key # cache_id}
                    \cup {[key |-> cache_id, instance |-> instance]}]

\* ValdationExecuter.build_list(nodes) over Cache.fetch: the executor state
\* afterwards and the LogicNode returned
RECURSIVE BuildList(_, _)
BuildList(e, nodes) ==
    IF Len(nodes) = 1
    THEN \* cls.cache.fetch(LogicNode, nodes[0], None)
         LET id1 == CreateUniqueId("LogicNode", <<nodes[1]>>, None)
             e1 == IF CacheHit(e.LogicNodesCache, id1) THEN e
                   ELSE LET made == NewLogicNode(e, "subclass", nodes[1], None)
                        IN CacheStore(made, id1, Len(made.LogicNodes))
         IN [e |-> e1, res |-> CacheGet(e1.LogicNodesCache, id1)]
    ELSE \* subnode = cls.cache.fetch(cls.build_list, nodes[1:])
         LET id1 == CreateUniqueId("build_list", Tail(nodes), None)
             e1 == IF CacheHit(e.LogicNodesCache, id1) THEN e
                   ELSE LET inner == BuildList(e, Tail(nodes))
                        IN CacheStore(inner.e, id1, inner.res)
             subnode == CacheGet(e1.LogicNodesCache, id1)
             \* cls.cache.fetch(LogicNode, subnode)
             id2 == CreateUniqueId("LogicNode", <<>>, subnode)
             e2 == IF CacheHit(e1.LogicNodesCache, id2) THEN e1
                   ELSE LET made == NewLogicNode(e1, "logic", subnode, None)
                        IN CacheStore(made, id2, Len(made.LogicNodes))
         IN [e |-> e2, res |-> CacheGet(e2.LogicNodesCache, id2)]

IdleThreads == [t \in Threads |->
                  [pc |-> "idle", req |-> NoRequest, cache_id |-> <<>>,
                   instance |-> None, res |-> None, n |-> 0]]

-----------------------------------------------------------------------------
(* Construction specification                                              *)

Init ==
    /\ heap = <<>>
    /\ cache = <<>>
    /\ built = {}
    /\ lastOp = [op |-> "none"]
    /\ nOps = 0
    /\ run = IdleRun
    /\ sink = IdleSink
    /\ thr = IdleThreads
    /\ objs = <<>>
    /\ exe = NoExecuters

\* T(*args, _next_validator=nxt)
Construct(cls, args, nxt) ==
    /\ nOps < MaxOps
    /\ LET st == Call(State, cls, args, nxt)
       IN /\ heap' = st.heap
          /\ cache' = st.cache
          /\ built' = st.built
          /\ objs' = st.objs
          /\ lastOp' = [op |-> "new", cls |-> cls, args |-> args, next |-> nxt,
                        res |-> st.res,
                        fresh |-> st.res > Len(heap),
                        repeat |-> \E r \in built : /\ r.cls = cls
                                                    /\ r.args = args
                                                    /\ r.next = nxt]
    /\ nOps' = nOps + 1
    /\ UNCHANGED <<run, sink, thr, exe>>

\* the module the class Validator is taken from
Modules == {"validator", "core"}

\* _create_hash when a leaf of the constructor arguments cannot be hashed:
\* hash(tuple(constructor_leaves)) raises TypeError; core.py catches it and
\* raises the ValidatorException made by create_initialization_exception,
\* validator.py has no handler around the hash
CreateHashError(module) ==
    IF module = "core" THEN "ValidatorException" ELSE "TypeError"

\* WithInit(x, _next_validator=nxt) with x unhashable: __new__ is left by the
\* exception of _create_hash, before the cache is looked at
ConstructUnhashable(module, nxt) ==
    /\ nOps < MaxOps
    /\ lastOp' = [op |-> "new_failed", module |-> module,
                  error |-> CreateHashError(module),
                  heap_before |-> heap, cache_before |-> cache]
    /\ nOps' = nOps + 1
    /\ UNCHANGED <<heap, cache, built, run, sink, thr, objs, exe>>

\* a.append(b), also written a & b
DoAppend(a, b) ==
    /\ nOps < MaxOps
    /\ LET st == AppendTo(State, a, b)
       IN /\ heap' = st.heap
          /\ cache' = st.cache
          /\ built' = st.built
          /\ objs' = st.objs
          /\ lastOp' = [op |-> "append", self |-> a, other |-> b, res |-> st.res,
                        fresh |-> st.res > Len(heap),
                        selfSeq |-> Walk(heap, a), otherSeq |-> Walk(heap, b),
                        selfLen |-> Len(Walk(heap, a))]
    /\ nOps' = nOps + 1
    /\ UNCHANGED <<run, sink, thr, exe>>

Next ==
    \/ \E cls \in BuildClasses, nxt \in {None} \cup Nodes :
       \E args \in BuildArgs(cls) :
          Construct(cls, args, nxt)
    \/ \E a \in Nodes, b \in Nodes : DoAppend(a, b)
    \/ \E module \in Modules, nxt \in {None} \cup Nodes :
          ConstructUnhashable(module, nxt)

Spec == Init /\ [][Next]_vars

-----------------------------------------------------------------------------
(* Operations on given chains: three chains are built, then one operation  *)
(* of the list interface is applied to them.                               *)

\* bound on the number of nodes the three chains are written with, together
MaxNodes == 4

\* the nodes the chains are made of
AlgKinds == {[cls |-> "Positive", args |-> <<>>],
             [cls |-> "WithInit", args |-> <<-1>>],
             [cls |-> "WithInit", args |-> <<-2>>]}

PartsUpTo(n) == UNION {[1..k -> AlgKinds] : k \in 1..n}

\* T1(...) & T2(...) & ... written out as constructor calls, tail first
RECURSIVE BuildChain(_, _)
BuildChain(st, seq) ==
    IF seq = <<>> THEN [st EXCEPT !.res = None]
    ELSE LET s == BuildChain(st, Tail(seq))
         IN Call(s, Head(seq).cls, Head(seq).args, s.res)

InitAlgebra ==
    \E sa \in PartsUpTo(MaxNodes - 2), sb \in PartsUpTo(MaxNodes - 2),
       sc \in PartsUpTo(MaxNodes - 2) :
        LET s0 == [heap |-> <<>>, cache |-> <<>>, built |-> {}, res |-> None,
                   objs |-> <<>>]
            s1 == BuildChain(s0, sa)
            s2 == BuildChain(s1, sb)
            s3 == BuildChain(s2, sc)
        IN /\ Len(sa) + Len(sb) + Len(sc) <= MaxNodes
           /\ heap = s3.heap
           /\ cache = s3.cache
           /\ built = s3.built
           /\ objs = s3.objs
           /\ lastOp = [op |-> "chains", a |-> s1.res, b |-> s2.res, c |-> s3.res]
           /\ nOps = 0
           /\ run = IdleRun
           /\ sink = IdleSink
           /\ thr = IdleThreads
           /\ exe = NoExecuters

\* left = (a & b) & c
AssocLeft ==
    /\ lastOp.op = "chains"
    /\ LET ab == AppendTo(State, lastOp.a, lastOp.b)
           st == AppendTo(ab, ab.res, lastOp.c)
       IN /\ heap' = st.heap
          /\ cache' = st.cache
          /\ built' = st.built
          /\ objs' = st.objs
          /\ lastOp' = [op |-> "assoc_left", a |-> lastOp.a, b |-> lastOp.b,
                        c |-> lastOp.c, left |-> st.res]
    /\ nOps' = nOps + 1
    /\ UNCHANGED <<run, sink, thr, exe>>

\* right = a & (b & c)
AssocRight ==
    /\ lastOp.op = "assoc_left"
    /\ LET bc == AppendTo(State, lastOp.b, lastOp.c)
           st == AppendTo(bc, lastOp.a, bc.res)
       IN /\ heap' = st.heap
          /\ cache' = st.cache
          /\ built' = st.built
          /\ objs' = st.objs
          /\ lastOp' = [op |-> "assoc", a |-> lastOp.a, b |-> lastOp.b,
                        c |-> lastOp.c, left |-> lastOp.left, right |-> st.res]
    /\ nOps' = nOps + 1
    /\ UNCHANGED <<run, sink, thr, exe>>

\* the list classes of core.py that offer insert
ListClasses == {"LinkListNode", "ListNode"}

\* what a list operation gives: a chain, as the sequence of its node keys,
\* or the AttributeError of a method looked up on None
Chain(seq) == [ok |-> TRUE, seq |-> seq]

AttributeError == [ok |-> FALSE, seq |-> <<>>]

\* LinkListNode.as_keylist / ListNode.chain_key: the keys head to tail
AsKeylist(h, n) == Walk(h, n)

\* LinkListNode.insert: the key lists are spliced and the chain is rebuilt
\* from the list by from_keylist
LinkListInsert(items, index, inserting) ==
    Chain(SubSeq(items, 1, index) \o inserting
             \o SubSeq(items, index + 1, Len(items)))

\* ListNode.rebind_node: this node's value in front of the given chain
RebindNode(self, node) == <<Head(self)>> \o node

\* ListNode.append, the statements of lines 846-851: the base case tests
\* the appended node, the descent goes along the receiver
RECURSIVE ListNodeAppend(_, _)
ListNodeAppend(self, node) ==
    IF Len(node) = 1
    THEN Chain(RebindNode(self, node))
    ELSE IF Len(self) = 1
         THEN AttributeError
         ELSE LET subnode == ListNodeAppend(Tail(self), node)
              IN IF subnode.ok THEN Chain(RebindNode(self, subnode.seq))
                 ELSE AttributeError

\* ListNode.insert: index 0 appends the receiver onto the inserted chain,
\* any other index descends to next_node
RECURSIVE ListNodeInsert(_, _, _)
ListNodeInsert(self, index, node) ==
    IF index = 0
    THEN ListNodeAppend(node, self)
    ELSE IF Len(self) = 1
         THEN AttributeError
         ELSE LET subnode == ListNodeInsert(Tail(self), index - 1, node)
              IN IF subnode.ok THEN Chain(RebindNode(self, subnode.seq))
                 ELSE AttributeError

\* cachetools.cached over one method: the value stored for self, or the
\* value the body computes when nothing is stored
Cached(entries, self, computed) ==
    IF \E entry \in entries : entry.self = self
    THEN (CHOOSE entry \in entries : entry.self = self).value
    ELSE computed

\* the entries once the method was called on self
Remember(entries, self, computed) ==
    IF \E entry \in entries : entry.self = self THEN entries
    ELSE entries \cup {[self |-> self, value |-> computed]}

\* LinkListNode.__len__: 1 without a next node, else len(next_node) + 1
RECURSIVE LinkLen(_, _, _)
LinkLen(la, h, n) ==
    Cached(la.length, n,
           IF h[n].next_validator = None THEN 1
           ELSE LinkLen(la, h, h[n].next_validator) + 1)

\* LinkListNode.key: the factory key of the node, then the keys of the rest
RECURSIVE LinkKey(_, _, _)
LinkKey(la, h, n) ==
    Cached(la.key, n,
           IF LinkLen(la, h, n) = 1 THEN <<n>>
           ELSE <<n>> \o LinkKey(la, h, h[n].next_validator))

\* an element of a key list: a NodeBindingFactory, or a node put there
ListItem(kind, ref) == [kind |-> kind, ref |-> ref]

\* LinkListNode.as_keylist: list(self.key())
LinkAsKeylist(la, h, n) ==
    Cached(la.as_list, n,
           [i \in DOMAIN LinkKey(la, h, n) |-> ListItem("key", LinkKey(la, h, n)[i])])

\* LinkAttrCache after self.as_keylist(): the list of self, and the length
\* and key of self and of every node after it
AfterAsKeylist(la, h, n) ==
    LET rest == {Links(h, n)[i] : i \in DOMAIN Links(h, n)}
    IN [length |-> la.length \cup
                     {[self |-> m, value |-> LinkLen(la, h, m)] :
                         m \in {m \in rest : \A entry \in la.length : entry.self # m}},
        key |-> la.key \cup
                     {[self |-> m, value |-> LinkKey(la, h, m)] :
                         m \in {m \in rest : \A entry \in la.key : entry.self # m}},
        as_list |-> Remember(la.as_list, n, LinkAsKeylist(la, h, n))]

\* LinkListNode.from_keylist(items): bind_key from the last item to the
\* first; an item that is no NodeBindingFactory has no bind_key
LinkFromKeylist(items) ==
    IF \E i \in DOMAIN items : items[i].kind # "key" THEN AttributeError
    ELSE Chain([i \in DOMAIN items |-> items[i].ref])

\* items.append(item) on the list object that as_keylist returned, which is
\* the one the cache holds for self
ListAppendInPlace(la, self, item) ==
    [la EXCEPT !.as_list =
         {IF entry.self = self
          THEN [self |-> self,
                value |-> Append(entry.value, ListItem("node", item))]
          ELSE entry : entry \in la.as_list}]

\* a.append(b) of LinkListNode
DoLinkAppend(a, b) ==
    /\ \/ lastOp.op \in {"chains", "link_append"}
       \/ lastOp.op = "insert" /\ lastOp.impl = "LinkListNode"
    /\ nOps < 2
    /\ LET la == AfterAsKeylist(exe.LinkAttrCache, heap, a)
           after == ListAppendInPlace(la, a, b)
           items == LinkAsKeylist(after, heap, a)
       IN /\ lastOp' = [op |-> "link_append", a |-> a, b |-> b,
                        res |-> LinkFromKeylist(items)]
          /\ exe' = [exe EXCEPT !.LinkAttrCache = after]
    /\ nOps' = nOps + 1
    /\ UNCHANGED <<heap, cache, built, run, sink, thr, objs>>

\* a.insert(index, b) on list nodes that hold the keys of a and of b
DoInsert(impl, index) ==
    /\ lastOp.op = "chains"
    /\ index \in 0..Len(AsKeylist(heap, lastOp.a))
    /\ LET chain == AsKeylist(heap, lastOp.a)
           other == AsKeylist(heap, lastOp.b)
       IN lastOp' = [op |-> "insert", impl |-> impl, index |-> index,
                     chain |-> chain, other |-> other,
                     res |-> IF impl = "LinkListNode"
                             THEN LinkListInsert(chain, index, other)
                             ELSE ListNodeInsert(chain, index, other)]
    /\ exe' = IF impl = "LinkListNode"
              THEN [exe EXCEPT !.LinkAttrCache =
                        AfterAsKeylist(AfterAsKeylist(@, heap, lastOp.a),
                                       heap, lastOp.b)]
              ELSE exe
    /\ nOps' = nOps + 1
    /\ UNCHANGED <<heap, cache, built, run, sink, thr, objs>>

\* Validator.make_node_spec: ValidatorNodeSpec(type, args, kwargs) of one
\* node, from the constructor parameters stored on it
MakeNodeSpec(h, n) == [type |-> h[n].cls, args |-> h[n].args]

\* a plausible slip: the specs are listed head first
RECURSIVE GetNodespecsHeadFirst(_, _)
GetNodespecsHeadFirst(h, n) ==
    IF h[n].next_validator = None
    THEN <<MakeNodeSpec(h, n)>>
    ELSE <<MakeNodeSpec(h, n)>> \o GetNodespecsHeadFirst(h, h[n].next_validator)

\* Validator._get_nodespecs: the specs of the chain, the tail's first
RECURSIVE GetNodespecs(_, _)
GetNodespecs(h, n) ==
    IF h[n].next_validator = None
    THEN <<MakeNodeSpec(h, n)>>
    ELSE Append(GetNodespecs(h, h[n].next_validator), MakeNodeSpec(h, n))

\* Validator.tree_flatten: no children, the specs as auxiliary data
TreeFlatten(h, n) == [children |-> <<>>, aux_data |-> GetNodespecs(h, n)]

\* the loop of Validator.tree_unflatten: one constructor call per spec, each
\* with the node made before it as continuation
RECURSIVE UnflattenLoop(_, _, _)
UnflattenLoop(st, aux_data, current_node) ==
    IF aux_data = <<>> THEN [st EXCEPT !.res = current_node]
    ELSE LET s == Call(st, Head(aux_data).type, Head(aux_data).args, current_node)
         IN UnflattenLoop(s, Tail(aux_data), s.res)

\* Validator.tree_unflatten(aux_data, children)
TreeUnflatten(st, aux_data, unused) == UnflattenLoop(st, aux_data, None)

\* tree_unflatten(treedef, items) of what tree_flatten(c) gave
RoundTrip(c) ==
    /\ lastOp.op = "chains"
    /\ LET flat == TreeFlatten(heap, c)
           st == TreeUnflatten(State, flat.aux_data, flat.children)
       IN /\ heap' = st.heap
          /\ cache' = st.cache
          /\ built' = st.built
          /\ objs' = st.objs
          /\ lastOp' = [op |-> "roundtrip", c |-> c, res |-> st.res,
                        before |-> Walk(heap, c), fresh |-> Len(st.heap) > Len(heap)]
    /\ nOps' = nOps + 1
    /\ UNCHANGED <<run, sink, thr, exe>>

\* the classes that offer a traversal of the chain
WalkClasses == {"Validator", "LinkListNode", "ListNode"}

\* scaled-down depth at which the interpreter raises RecursionError
RecursionLimit == 4

\* what consuming a generator gave: the items yielded, and whether the
\* generator stopped by itself (StopIteration) or an error ended it
Yielded(seq, stops) == [seq |-> seq, stops |-> stops]

\* list(self.walk(f)) with f = make_node_spec: f(self), then the items of
\* next_validator.walk(f)
RECURSIVE ValidatorWalk(_, _)
ValidatorWalk(h, n) ==
    <<MakeNodeSpec(h, n)>>
       \o (IF h[n].next_validator # None
           THEN ValidatorWalk(h, h[n].next_validator) ELSE <<>>)

\* LinkListNode.__iter__: yield self, then, if there is a next node, the
\* items of iter(self), which is the same traversal one frame deeper
RECURSIVE LinkListIter(_, _, _)
LinkListIter(h, n, depth) ==
    IF depth > RecursionLimit THEN Yielded(<<>>, FALSE)
    ELSE IF h[n].next_validator = None THEN Yielded(<<n>>, TRUE)
    ELSE LET inner == LinkListIter(h, n, depth + 1)
         IN Yielded(<<n>> \o inner.seq, inner.stops)

\* ListNode.__iter__ under cachetools.cached: the generator made by the
\* first call for a node is stored under (node, "iter") and handed out
\* again; one that was consumed yields nothing more
RECURSIVE ListNodeIter(_, _, _)
ListNodeIter(h, consumed, n) ==
    IF n \in consumed THEN <<>>
    ELSE <<n>> \o (IF h[n].next_validator # None
                   THEN ListNodeIter(h, consumed, h[n].next_validator)
                   ELSE <<>>)

\* the traversal of chain c, consumed to its end
Traverse(impl, e, c) ==
    CASE impl = "Validator" -> Yielded(ValidatorWalk(heap, c), TRUE)
      [] impl = "LinkListNode" -> LinkListIter(heap, c, 1)
      [] impl = "ListNode" -> Yielded(ListNodeIter(heap, e.ListNodeAttr, c), TRUE)

\* the generators ListNode.__iter__ has stored once chain c was traversed
AfterTraverse(impl, e, c) ==
    IF impl = "ListNode"
    THEN [e EXCEPT !.ListNodeAttr =
                      @ \cup {n \in Nodes : \E i \in 1..Len(Traverse(impl, e, c).seq) :
                                               Traverse(impl, e, c).seq[i] = n}]
    ELSE e

\* first = list(c.walk(f)) / list(iter(c))
DoWalk(impl, c) ==
    /\ lastOp.op = "chains"
    /\ lastOp' = [op |-> "walk", impl |-> impl, c |-> c,
                  first |-> Traverse(impl, exe, c)]
    /\ exe' = AfterTraverse(impl, exe, c)
    /\ nOps' = nOps + 1
    /\ UNCHANGED <<heap, cache, built, run, sink, thr, objs>>

\* again = list(c.walk(f)) / list(iter(c)), after the first traversal
DoWalkAgain ==
    /\ lastOp.op = "walk"
    /\ lastOp' = [op |-> "walk_again", impl |-> lastOp.impl, c |-> lastOp.c,
                  first |-> lastOp.first,
                  again |-> Traverse(lastOp.impl, exe, lastOp.c)]
    /\ exe' = AfterTraverse(lastOp.impl, exe, lastOp.c)
    /\ nOps' = nOps + 1
    /\ UNCHANGED <<heap, cache, built, run, sink, thr, objs>>

\* the logic nodes reached from logic node ln over next_node, ln first
RECURSIVE LogicChain(_, _)
LogicChain(e, ln) ==
    IF ln = None THEN <<>>
    ELSE <<ln>> \o LogicChain(e, e.LogicNodes[ln].next_node)

\* res = ValdationExecuter.build_list(nodes) for the nodes of chain c, and
\* again = build_list(nodes) with the same list
DoBuildList(c) ==
    /\ lastOp.op \in {"chains", "build_list"}
    /\ nOps < 2
    /\ LET nodes == Links(heap, c)
           first == BuildList(exe, nodes)
           again == BuildList(first.e, nodes)
       IN /\ lastOp' = [op |-> "build_list", nodes |-> nodes,
                        res |-> first.res, again |-> again.res,
                        made |-> Len(first.e.LogicNodes)]
          /\ exe' = again.e
    /\ nOps' = nOps + 1
    /\ UNCHANGED <<heap, cache, built, run, sink, thr, objs>>

NextAlgebra ==
    \/ AssocLeft
    \/ \E c \in Nodes : DoBuildList(c)
    \/ \E a, b \in Nodes : DoLinkAppend(a, b)
    \/ AssocRight
    \/ \E impl \in WalkClasses, c \in Nodes : DoWalk(impl, c)
    \/ DoWalkAgain
    \/ \E c \in Nodes : RoundTrip(c)
    \/ \E impl \in ListClasses, index \in 0..MaxNodes : DoInsert(impl, index)

SpecAlgebra == InitAlgebra /\ [][NextAlgebra]_vars

-----------------------------------------------------------------------------
(* One call of a chain: chain(operand, **kwargs)                           *)
(*                                                                         *)
(* Engines:                                                                *)
(*   "validator"  Validator._validate of validator.py                      *)
(*   "core"       Validator._validate of core.py (class at line 1046)      *)
(*   "logic"      LogicNode.run_validation of core.py (switch table)       *)

Engines == {"validator", "core", "logic"}

\* node classes a chain is run with, after the fixtures of the tests and
\* of main.py
RunClasses == {"Positive", "Even", "Suppress", "ThrowError", "IntPredicate",
               "BadCreate", "RaiseCreate", "Transform", "Logger",
               "ThrowOnError", "IntChain", "RaiseChain", "BatchShape"}

Operands == {-2, 3}

\* the keyword arguments a caller passes along with the operand: main.py
\* passes batch_shape to the chains holding a BatchShape node, the chain
\* predicate of SuppressErrorsWhenFlagged reads suppress_errors
Contexts ==
    {[suppress_errors |-> b] : b \in BOOLEAN}
       \cup {[suppress_errors |-> FALSE, batch_shape |-> 3]}

\* predicate(operand, **kwargs): what the subclass code does; BatchShape
\* declares batch_shape as a required parameter, so a call without it
\* raises TypeError before the body runs
UserPredicate(cls, operand, kwargs) ==
    CASE cls = "Positive" -> IF operand > 0 THEN "true" ELSE "false"
      [] cls = "Even" -> IF operand % 2 = 0 THEN "true" ELSE "false"
      [] cls = "BatchShape" ->
            IF "batch_shape" \notin DOMAIN kwargs THEN "raise"
            ELSE IF operand = kwargs.batch_shape THEN "true" ELSE "false"
      [] cls = "ThrowError" -> "raise"
      [] cls = "IntPredicate" -> "nonbool"
      [] cls \in {"BadCreate", "RaiseCreate"} -> "false"
      [] OTHER -> "true"

\* chain_predicate(**kwargs); the default returns True
UserChainPredicate(cls, suppress_errors) ==
    CASE cls = "Suppress" -> IF suppress_errors THEN "false" ELSE "true"
      [] cls = "IntChain" -> "nonbool"
      [] cls = "RaiseChain" -> "raise"
      [] OTHER -> "true"

\* create_exception(operand, **kwargs)
UserCreateException(cls) ==
    CASE cls = "BadCreate" -> "nonexc"
      [] cls = "RaiseCreate" -> "raise"
      [] OTHER -> "exc"

\* handle_exception(exception, **kwargs); the default returns the exception
UserHandleException(cls) ==
    CASE cls = "Transform" -> "new"
      [] cls = "Logger" -> "none"
      [] cls = "ThrowOnError" -> "raise"
      [] OTHER -> "same"

\* the chain [seq[1], ..., seq[n]] built tail first, as tree_unflatten does
RECURSIVE ChainState(_)
ChainState(seq) ==
    IF seq = <<>>
    THEN [heap |-> <<>>, cache |-> <<>>, built |-> {}, res |-> None]
    ELSE LET st == ChainState(Tail(seq))
         IN New(st, Head(seq), <<>>, st.res)

ChainsUpTo(n) == UNION {[1..k -> RunClasses] : k \in 1..n}

Cls(n) == heap[n].cls

NextOf(n) == heap[n].next_validator

\* a plausible slip: only the keywords the engine knows of are passed on
ForwardKnownKeys(kwargs) ==
    [k \in DOMAIN kwargs \cap {"suppress_errors"} |-> kwargs[k]]

\* f(..., **kwargs) called from a frame that received **kwargs: the callee
\* gets a dict of its own with the caller's items
Forward(kwargs) ==
    [k \in DOMAIN kwargs |-> kwargs[k]]

\* one invocation of user code or of a final callback, with the keyword
\* arguments it was called with
Event(n, beh, arg, ret, exc) ==
    [node |-> n, beh |-> beh, arg |-> arg, ret |-> ret, exc |-> exc,
     kwargs |-> Forward(run.kwargs)]

\* a plausible slip: the feature name is copied from _execute_predicate
FaultCopied(n, beh, ret) ==
    [cls |-> Cls(n), beh |-> "predicate",
     kind |-> IF ret = "raise" THEN "did_not_run" ELSE "wrong_type"]

\* ValidatorException raised by the sanity check around a subclass method:
\* SubclassDidNotRunException / SubclassReturnedWrongTypeException
Fault(n, beh, ret) ==
    [cls |-> Cls(n), beh |-> beh,
     kind |-> IF ret = "raise" THEN "did_not_run" ELSE "wrong_type"]

\* a plausible slip: the ValidatorException is handed to the final
\* exception callback like a validation failure instead of being raised
AbortToSink(r, n, beh, ret) ==
    [r EXCEPT !.pc = "exception_sink", !.outcome = "contract",
              !.fault = Fault(n, beh, ret)]

\* the raise leaves every frame of the call: nothing else of the run executes
Abort(r, n, beh, ret) ==
    [r EXCEPT !.pc = "done", !.outcome = "contract", !.fault = Fault(n, beh, ret)]

\* what the call hands back once the walk is over: _base_case_passed and
\* _base_case_failed of both Validator classes return the operand, and
\* __call__ returns it; LogicNode.__call__ and ValdationExecuter.__call__
\* have no return statement
ReturnValue(impl, operand) ==
    IF impl = "logic" THEN [type |-> "NoneType", val |-> None]
    ELSE [type |-> "int", val |-> operand]

\* Validator.__post_init_hook__(nodes) of the links-list class on instance n:
\* _links and _validate are assigned, and ValdationExecuter(nodes) fills
\* LogicNodesCache through build_list
PostInitHook(e, n, nodes) ==
    [BuildList(e, nodes).e EXCEPT !.validate = @ \cup {n}]

\* the property Validator.validate of the links-list class, through which
\* its executor is reached: built on first use when _validate is None; the
\* two Validator classes with _validate methods have no such step
Validate(e, impl, n) ==
    IF impl = "logic" /\ n \notin e.validate
    THEN PostInitHook(e, n, <<n>>)
    ELSE e

\* Validator.__call__ / ValdationExecuter.__call__: the call starts at the head
InitRun ==
    \E seq \in ChainsUpTo(MaxChain), impl \in Engines,
       operand \in Operands, kwargs \in Contexts :
        LET st == ChainState(seq)
        IN /\ heap = st.heap
           /\ cache = st.cache
           /\ built = st.built
           /\ lastOp = [op |-> "none"]
           /\ nOps = 0
           /\ run = [IdleRun EXCEPT !.pc = "predicate", !.impl = impl,
                                    !.head = st.res, !.cur = st.res,
                                    !.operand = operand,
                                    !.kwargs = kwargs,
                                    !.handlers = <<st.res>>,
                                    !.outcome = "running"]
           /\ sink = IdleSink
           /\ thr = IdleThreads
           /\ objs = [n \in 1..Len(st.heap) |-> [item |-> <<>>, inits |-> 1]]
           /\ exe = IF impl = "logic" /\ Len(seq) > 1
                    THEN PostInitHook(NoExecuters, st.res, Links(st.heap, st.res))
                    ELSE NoExecuters

\* a bool used as a number: True is 1, False is 0
AsInt(b) == IF b THEN 1 ELSE 0

\* a plausible slip: the continuation is added instead of multiplied in
MakeSwitchCaseSum(did_validation_pass, can_continue_chain) ==
    LET case0 == 0
        case1 == case0 + AsInt(did_validation_pass)
    IN case1 + AsInt(can_continue_chain)

\* LogicNode.make_switch_case from what did_validation_pass and
\* can_continue_chain returned
MakeSwitchCase(did_validation_pass, can_continue_chain) ==
    LET case0 == 0
        case1 == case0 + AsInt(did_validation_pass)
    IN case1 + case1 * AsInt(can_continue_chain)

\* LogicNode.run_validation after make_switch_case gave case index c:
\* the switch table is built, then one case is taken
LogicSwitch(r0, c) ==
    LET r == [r0 EXCEPT !.cases = Append(@, [node |-> r0.cur, index |-> c])]
    IN IF NextOf(r.cur) = None
       THEN \* self.next_node.run_validation on next_node = None
            [r EXCEPT !.pc = "done", !.outcome = "crash"]
       ELSE CASE c = 0 -> [r EXCEPT !.pc = "create"]
              [] c = 1 -> [r EXCEPT !.pc = "success_sink"]
              [] c = 2 -> [r EXCEPT !.pc = "predicate", !.cur = NextOf(r.cur),
                                    !.handlers = Append(@, NextOf(r.cur))]

\* what follows a predicate that returned a bool
AfterPredicate(r, ret) ==
    CASE r.impl = "validator" ->
            \* _validate: cond(did_validation_pass, _passed_branch, _base_case_failed);
            \* _passed_branch returns before the chain predicate is consulted
            IF ret = "true"
            THEN IF NextOf(r.cur) = None
                 THEN [r EXCEPT !.pc = "done", !.outcome = "success",
                                !.returned = ReturnValue(r.impl, r.operand)]
                 ELSE [r EXCEPT !.cur = NextOf(r.cur),
                                !.handlers = Append(@, NextOf(r.cur))]
            ELSE [r EXCEPT !.pc = "create"]
      [] r.impl = "core" ->
            IF ret = "true"
            THEN IF NextOf(r.cur) = None
                 THEN [r EXCEPT !.pc = "success_sink"]
                 ELSE [r EXCEPT !.pc = "chain_predicate"]
            ELSE [r EXCEPT !.pc = "create"]
      [] r.impl = "logic" ->
            \* make_switch_case: can_continue_chain is evaluated in both
            \* cases; it returns False without a call when next_node is None
            IF NextOf(r.cur) = None
            THEN LogicSwitch(r, MakeSwitchCase(ret = "true", FALSE))
            ELSE [r EXCEPT !.pc = "chain_predicate", !.passed = (ret = "true")]

\* _execute_predicate / SubclassMethodsInterface.predicate on the current node
ExecPredicate ==
    /\ run.pc = "predicate"
    /\ LET ret == UserPredicate(Cls(run.cur), run.operand, Forward(run.kwargs))
           r == [run EXCEPT !.trace = Append(@, Event(run.cur, "predicate", NoExc, ret, NoExc))]
       IN run' = IF ret \in {"raise", "nonbool"}
                 THEN Abort(r, run.cur, "predicate", ret)
                 ELSE AfterPredicate(r, ret)
    /\ exe' = IF run.trace = <<>> THEN Validate(exe, run.impl, run.head) ELSE exe
    /\ UNCHANGED <<heap, cache, built, lastOp, nOps, sink, thr, objs>>

\* what follows a chain predicate that returned a bool
AfterChainPredicate(r, ret) ==
    CASE r.impl = "core" ->
            \* _passed_branch: cond(chain_predicate, next._validate, _base_case_passed)
            IF ret = "true"
            THEN [r EXCEPT !.pc = "predicate", !.cur = NextOf(r.cur),
                           !.handlers = Append(@, NextOf(r.cur))]
            ELSE [r EXCEPT !.pc = "success_sink"]
      [] r.impl = "logic" ->
            \* case = passed + passed * can_continue
            LogicSwitch(r, MakeSwitchCase(r.passed, ret = "true"))

\* _execute_chain_predicate / SubclassMethodsInterface.chain_predicate
ExecChainPredicate ==
    /\ run.pc = "chain_predicate"
    /\ LET ret == UserChainPredicate(Cls(run.cur), Forward(run.kwargs).suppress_errors)
           r == [run EXCEPT !.trace = Append(@, Event(run.cur, "chain_predicate", NoExc, ret, NoExc))]
       IN run' = IF ret \in {"raise", "nonbool"}
                 THEN Abort(r, run.cur, "chain_predicate", ret)
                 ELSE AfterChainPredicate(r, ret)
    /\ UNCHANGED <<heap, cache, built, lastOp, nOps, sink, thr, objs, exe>>

\* _execute_exception_callback / run_exception_branch: the failing node
\* makes the exception, which then goes to the wrapped callback
ExecCreateException ==
    /\ run.pc = "create"
    /\ LET ret == UserCreateException(Cls(run.cur))
           exc == IF ret = "exc" THEN [origin |-> run.cur, kind |-> "created"] ELSE NoExc
           r == [run EXCEPT !.trace = Append(@, Event(run.cur, "create_exception", NoExc, ret, exc))]
       IN run' = IF ret \in {"raise", "nonexc"}
                 THEN Abort(r, run.cur, "create_exception", ret)
                 ELSE [r EXCEPT !.pc = "handle", !.err = exc]
    /\ UNCHANGED <<heap, cache, built, lastOp, nOps, sink, thr, objs, exe>>

\* the innermost wrapper not yet called: exception_callback_wrapper of the
\* node entered last
HandlerNow(handlers) == handlers[Len(handlers)]

HandlersRest(handlers) == SubSeq(handlers, 1, Len(handlers) - 1)

\* exception_callback_wrapper / wrapped_handle_callback: this node's
\* handle_exception, then the callback of the node before it
ExecHandle ==
    /\ run.pc = "handle"
    /\ run.handlers # <<>>
    /\ LET n == HandlerNow(run.handlers)
           ret == UserHandleException(Cls(n))
           exc == CASE ret = "same" -> run.err
                    [] ret = "new" -> [origin |-> n, kind |-> "handled"]
                    [] OTHER -> NoExc
           r == [run EXCEPT !.trace = Append(@, Event(n, "handle_exception", run.err, ret, exc))]
       IN run' = IF ret \in {"raise", "none"}
                 THEN \* "raise ... from err": a handler that re-raises what it
                      \* was given leaves it as the __cause__
                      [Abort(r, n, "handle_exception", ret)
                          EXCEPT !.cause = IF ret = "raise" THEN run.err ELSE NoExc]
                 ELSE [r EXCEPT !.err = exc,
                                !.handlers = HandlersRest(run.handlers),
                                !.pc = IF Len(run.handlers) = 1
                                       THEN "exception_sink" ELSE "handle"]
    /\ UNCHANGED <<heap, cache, built, lastOp, nOps, sink, thr, objs, exe>>

\* the callable used as final exception callback: validator.py passes a
\* no-op lambda, core.py's get_root_exception_callback returns the success
\* callback, ValdationExecuter passes the registered exception callback
RootExceptionCallback(impl) ==
    IF impl = "core" THEN "success_sink" ELSE "exception_sink"

\* the callback at the root of the wrappers is called with the final error
FinalException ==
    /\ run.pc = "exception_sink"
    /\ run' = [run EXCEPT !.trace = Append(@, Event(None, RootExceptionCallback(run.impl),
                                                    run.err, "ok", NoExc)),
                          !.pc = "done", !.outcome = "failure",
                          !.returned = ReturnValue(run.impl, run.operand)]
    /\ UNCHANGED <<heap, cache, built, lastOp, nOps, sink, thr, objs, exe>>

\* _base_case_passed / switch case 1: the success callback is called
FinalSuccess ==
    /\ run.pc = "success_sink"
    /\ run' = [run EXCEPT !.trace = Append(@, Event(None, "success_sink", NoExc, "ok", NoExc)),
                          !.pc = "done", !.outcome = "success",
                          !.returned = ReturnValue(run.impl, run.operand)]
    /\ UNCHANGED <<heap, cache, built, lastOp, nOps, sink, thr, objs, exe>>

NextRun ==
    \/ ExecPredicate
    \/ ExecChainPredicate
    \/ ExecCreateException
    \/ ExecHandle
    \/ FinalException
    \/ FinalSuccess

SpecRun == InitRun /\ [][NextRun]_vars

\* a call runs on one thread of the interpreter from its first frame to its
\* last: a step that can be taken is taken
SpecRunFair == SpecRun /\ WF_vars(NextRun)

-----------------------------------------------------------------------------
(* The eager walk as one recursive function: Validator._validate of         *)
(* validator.py calls the next node's _validate from _passed_branch, and    *)
(* the wrapped callbacks unwind from the failing node to the head.          *)

\* the callback built by the nodes hs (head first) is called with e:
\* exception_callback_wrapper of the last node, then that of the node before
RECURSIVE EagerUnwind(_, _, _)
EagerUnwind(hs, e, handled) ==
    IF hs = <<>>
    THEN [outcome |-> "failure", handled |-> handled, err |-> e]
    ELSE LET n == hs[Len(hs)]
             ret == UserHandleException(Cls(n))
         IN IF ret \in {"raise", "none"}
            THEN [outcome |-> "contract", handled |-> Append(handled, n), err |-> NoExc]
            ELSE EagerUnwind(SubSeq(hs, 1, Len(hs) - 1),
                             IF ret = "new" THEN [origin |-> n, kind |-> "handled"] ELSE e,
                             Append(handled, n))

\* n._validate(callback, operand, **kwargs), the callback being the wrappers
\* of the nodes hs
RECURSIVE EagerValidate(_, _, _)
EagerValidate(n, hs, operand) ==
    LET p == UserPredicate(Cls(n), operand, run.kwargs)
        c == UserCreateException(Cls(n))
    IN CASE p \in {"raise", "nonbool"} ->
               [outcome |-> "contract", handled |-> <<>>, err |-> NoExc]
         [] p = "true" ->
               IF NextOf(n) = None
               THEN [outcome |-> "success", handled |-> <<>>, err |-> NoExc]
               ELSE EagerValidate(NextOf(n), Append(hs, n), operand)
         [] p = "false" ->
               IF c \in {"raise", "nonexc"}
               THEN [outcome |-> "contract", handled |-> <<>>, err |-> NoExc]
               ELSE EagerUnwind(Append(hs, n), [origin |-> n, kind |-> "created"], <<>>)

-----------------------------------------------------------------------------
(* The callback registry of state.py and its scoped registration           *)

\* bound on the number of context manager objects
MaxManagers == 2

\* bound on the depth of nested with-blocks
MaxDepth == 3

\* the callables a program registers
Callbacks == {1, 2}

\* get_exception_callback / get_success_callback
GetCallback(s, kind) ==
    IF kind = "exception" THEN s.final_callback ELSE s.success_callback

\* set_exception_callback / set_success_callback
SetCallback(s, kind, cb) ==
    IF kind = "exception" THEN [s EXCEPT !.final_callback = cb]
    ELSE [s EXCEPT !.success_callback = cb]

\* a plausible slip: leaving a scope clears the registration
ExitValueNone(m) == None

\* __exit__: the callback that is put back
ExitValue(m) == m.old_callback

\* __exit__ returns False: an exception of the body is not swallowed
ExitReturns == FALSE

\* ExceptionCallbackContextManager(cb) / SuccessCallbackContextManager(cb)
NewManager(kind, cb) ==
    /\ Len(sink.mgr) < MaxManagers
    /\ sink.stack = <<>>
    /\ ~sink.raising
    /\ sink' = [sink EXCEPT !.mgr = Append(@, [kind |-> kind, new_callback |-> cb,
                                               old_callback |-> None]),
                            !.last = NoLast]
    /\ UNCHANGED <<heap, cache, built, lastOp, nOps, run, thr, objs, exe>>

\* set_exception_callback(cb) / set_success_callback(cb) called outside of
\* any with-block
Register(kind, cb) ==
    /\ sink.stack = <<>>
    /\ ~sink.raising
    /\ sink' = [SetCallback(sink, kind, cb) EXCEPT !.last = NoLast]
    /\ UNCHANGED <<heap, cache, built, lastOp, nOps, run, thr, objs, exe>>

\* "with m:" reaches __enter__; m may be a manager that is already active
Enter(m) ==
    /\ Len(sink.stack) < MaxDepth
    /\ ~sink.raising
    /\ LET kind == sink.mgr[m].kind
           old == GetCallback(sink, kind)
           s1 == [sink EXCEPT !.mgr[m].old_callback = old]
           s2 == SetCallback(s1, kind, sink.mgr[m].new_callback)
           active == \E i \in DOMAIN sink.stack : sink.stack[i].m = m
       IN sink' = [s2 EXCEPT !.stack = Append(@, [m |-> m, kind |-> kind,
                                                  before |-> old]),
                             \* history: some manager of the current nest of
                             \* with-blocks was entered while already active
                             !.reentry = (sink.stack # <<>> /\ @) \/ active,
                             !.last = [NoLast EXCEPT !.op = "enter", !.m = m,
                                                     !.kind = kind, !.before = old]]
    /\ UNCHANGED <<heap, cache, built, lastOp, nOps, run, thr, objs, exe>>

\* the body of the innermost with-block raises
BodyRaises ==
    /\ sink.stack # <<>>
    /\ ~sink.raising
    /\ sink' = [sink EXCEPT !.raising = TRUE, !.last = [NoLast EXCEPT !.op = "raise"]]
    /\ UNCHANGED <<heap, cache, built, lastOp, nOps, run, thr, objs, exe>>

\* the innermost with-block is left, normally or by the exception: __exit__
Exit ==
    /\ sink.stack # <<>>
    /\ LET top == sink.stack[Len(sink.stack)]
           s1 == SetCallback(sink, top.kind, ExitValue(sink.mgr[top.m]))
       IN sink' = [s1 EXCEPT !.stack = SubSeq(sink.stack, 1, Len(sink.stack) - 1),
                             !.raising = sink.raising /\ ~ExitReturns,
                             !.last = [op |-> "exit", m |-> top.m, kind |-> top.kind,
                                       before |-> top.before, raised |-> sink.raising,
                                       reentered |-> sink.reentry]]
    /\ UNCHANGED <<heap, cache, built, lastOp, nOps, run, thr, objs, exe>>

\* a try/except around the with-block just left catches the exception
Catch ==
    /\ sink.raising
    /\ sink.last.op = "exit"
    /\ sink' = [sink EXCEPT !.raising = FALSE, !.last = [NoLast EXCEPT !.op = "catch"]]
    /\ UNCHANGED <<heap, cache, built, lastOp, nOps, run, thr, objs, exe>>

NextSink ==
    \/ \E kind \in Kinds, cb \in Callbacks : NewManager(kind, cb)
    \/ \E kind \in Kinds, cb \in Callbacks \cup {None} : Register(kind, cb)
    \/ \E m \in DOMAIN sink.mgr : Enter(m)
    \/ BodyRaises
    \/ Exit
    \/ Catch

SpecSink == Init /\ [][NextSink]_vars

-----------------------------------------------------------------------------
(* An executor among the scopes: the links-list Validator of core.py makes *)
(* its ValdationExecuter on the first use of validate or links and keeps   *)
(* it.  A callback that is None stands for the no-op lambda put in its     *)
(* place.                                                                  *)

\* ValdationExecuter.__init__: the two callbacks are read from the registry
\* and stored on the executor
Capture(s) ==
    [made |-> TRUE,
     final_exception_callback |-> GetCallback(s, "exception"),
     final_success_callback |-> GetCallback(s, "success")]

\* Validator.validate / Validator.links: __post_init_hook__ runs when no
\* executor was made yet
PostInit(e) ==
    IF e.callbacks.made THEN e ELSE [e EXCEPT !.callbacks = Capture(sink)]

\* chain.links is read, by append for one
ReadLinks ==
    /\ ~sink.raising
    /\ ~exe.callbacks.made
    /\ exe' = PostInit(exe)
    /\ UNCHANGED <<heap, cache, built, lastOp, nOps, run, sink, thr, objs>>

\* chain.validate(operand): ValdationExecuter.__call__ hands the stored
\* callbacks to the logic nodes, and the walk ends in one of them
CallValidate(outcome) ==
    /\ ~sink.raising
    /\ LET e == PostInit(exe)
           kind == IF outcome = "failure" THEN "exception" ELSE "success"
       IN /\ exe' = e
          /\ lastOp' = [op |-> "call", outcome |-> outcome,
                        delivered |-> IF kind = "exception"
                                      THEN e.callbacks.final_exception_callback
                                      ELSE e.callbacks.final_success_callback,
                        registered |-> GetCallback(sink, kind),
                        fresh |-> ~exe.callbacks.made]
    /\ UNCHANGED <<heap, cache, built, nOps, run, sink, thr, objs>>

\* one scope object is enough for a call inside and a call after a scope
NextScoped ==
    \/ \E kind \in Kinds, cb \in Callbacks : sink.mgr = <<>> /\ NewManager(kind, cb)
    \/ \E kind \in Kinds, cb \in Callbacks \cup {None} : Register(kind, cb)
    \/ \E m \in DOMAIN sink.mgr : Enter(m)
    \/ Exit
    \/ ReadLinks
    \/ \E outcome \in {"success", "failure"} : CallValidate(outcome)

SpecScoped == Init /\ [][NextScoped]_vars

-----------------------------------------------------------------------------
(* Two threads inside Validator.__new__                                    *)
(*                                                                         *)
(* __new__ takes no lock.  Between the membership test on _validator_cache *)
(* and the store into it the interpreter may switch threads; the test and  *)
(* the store themselves are single dictionary operations.                  *)

\* bound on the number of constructions each thread performs
MaxThreadOps == 2

\* the classes the threads construct
ThreadClasses == {"Positive", "Even"}

\* the instances a thread can pass as _next_validator: those returned so far
Returned == {b.res : b \in built}

\* T(*args, _next_validator=nxt) is called: the arguments are flattened and
\* the cache id is computed
ThreadCall(t, cls, args, nxt) ==
    /\ thr[t].pc \in {"idle", "done"}
    /\ thr[t].n < MaxThreadOps
    /\ thr' = [thr EXCEPT ![t] = [pc |-> "check",
                                   req |-> [cls |-> cls, args |-> args, next |-> nxt],
                                   cache_id |-> CreateHash(heap, cls, args, nxt),
                                   instance |-> None, res |-> None,
                                   n |-> thr[t].n + 1]]
    /\ UNCHANGED <<heap, cache, built, lastOp, nOps, run, sink, objs, exe>>

\* "if cache_id in _validator_cache: return _validator_cache[cache_id]";
\* on a miss the instance is created and its fields attached, which touches
\* nothing shared
ThreadCheck(t) ==
    /\ thr[t].pc = "check"
    /\ IF thr[t].cache_id \in DOMAIN cache
       THEN /\ thr' = [thr EXCEPT ![t].pc = "done", ![t].res = cache[thr[t].cache_id]]
            /\ built' = built \cup {[cls |-> thr[t].req.cls, args |-> thr[t].req.args,
                                     next |-> thr[t].req.next,
                                     res |-> cache[thr[t].cache_id]]}
            /\ UNCHANGED heap
       ELSE /\ heap' = Append(heap, [cls |-> thr[t].req.cls, args |-> thr[t].req.args,
                                     next_validator |-> thr[t].req.next,
                                     hash_value |-> thr[t].cache_id,
                                     list_length |-> CheckListLength(heap, thr[t].req.next)])
            /\ thr' = [thr EXCEPT ![t].pc = "store", ![t].instance = Len(heap) + 1]
            /\ UNCHANGED built
    /\ UNCHANGED <<cache, lastOp, nOps, run, sink, objs, exe>>

\* "_validator_cache[cache_id] = instance; return instance"
ThreadStore(t) ==
    /\ thr[t].pc = "store"
    /\ cache' = [k \in DOMAIN cache \cup {thr[t].cache_id} |->
                    IF k = thr[t].cache_id THEN thr[t].instance ELSE cache[k]]
    /\ thr' = [thr EXCEPT ![t].pc = "done", ![t].res = thr[t].instance]
    /\ built' = built \cup {[cls |-> thr[t].req.cls, args |-> thr[t].req.args,
                             next |-> thr[t].req.next, res |-> thr[t].instance]}
    /\ UNCHANGED <<heap, lastOp, nOps, run, sink, objs, exe>>

NextThreads ==
    \/ \E t \in Threads, cls \in ThreadClasses, nxt \in {None} \cup Returned :
       \E args \in BuildArgs(cls) : ThreadCall(t, cls, args, nxt)
    \/ \E t \in Threads : ThreadCheck(t)
    \/ \E t \in Threads : ThreadStore(t)

SpecThreads == Init /\ [][NextThreads]_vars

-----------------------------------------------------------------------------
(* Two threads, each with a with-block over a context manager of its own.  *)
(*                                                                         *)
(* state is one module-level StateData object shared by all threads, and   *)
(* no lock is taken: between the statements of __enter__ and __exit__ the  *)
(* interpreter may switch threads.                                         *)

\* each thread holds a manager made with a callback, outside its with-block;
\* callbacks may have been registered before
InitScopeThreads ==
    \E kinds \in [Threads -> Kinds], cbs \in [Threads -> Callbacks],
       fc \in Callbacks \cup {None}, sc \in Callbacks \cup {None} :
        /\ heap = <<>>
        /\ cache = <<>>
        /\ built = {}
        /\ lastOp = [op |-> "scopes", final_callback |-> fc, success_callback |-> sc]
        /\ nOps = 0
        /\ run = IdleRun
        /\ sink = [IdleSink EXCEPT !.final_callback = fc, !.success_callback = sc]
        /\ thr = [t \in Threads |->
                    [pc |-> "out", kind |-> kinds[t], new_callback |-> cbs[t],
                     old_callback |-> None]]
        /\ objs = <<>>
        /\ exe = NoExecuters

\* __enter__, first statement: self.old_callback = get_*_callback()
ThreadEnterSave(t) ==
    /\ thr[t].pc = "out"
    /\ thr' = [thr EXCEPT ![t].pc = "saved",
                          ![t].old_callback = GetCallback(sink, thr[t].kind)]
    /\ UNCHANGED <<heap, cache, built, lastOp, nOps, run, sink, objs, exe>>

\* __enter__, second statement: set_*_callback(self.new_callback)
ThreadEnterSet(t) ==
    /\ thr[t].pc = "saved"
    /\ sink' = SetCallback(sink, thr[t].kind, thr[t].new_callback)
    /\ thr' = [thr EXCEPT ![t].pc = "in"]
    /\ UNCHANGED <<heap, cache, built, lastOp, nOps, run, objs, exe>>

\* __exit__: set_*_callback(self.old_callback)
ThreadExit(t) ==
    /\ thr[t].pc = "in"
    /\ sink' = SetCallback(sink, thr[t].kind, thr[t].old_callback)
    /\ thr' = [thr EXCEPT ![t].pc = "exited"]
    /\ UNCHANGED <<heap, cache, built, lastOp, nOps, run, objs, exe>>

NextScopeThreads ==
    \/ \E t \in Threads : ThreadEnterSave(t)
    \/ \E t \in Threads : ThreadEnterSet(t)
    \/ \E t \in Threads : ThreadExit(t)

SpecScopeThreads == InitScopeThreads /\ [][NextScopeThreads]_vars

-----------------------------------------------------------------------------
(* TensorValidator of tensor_validator.py: plain objects with an           *)
(* assignable next_validator, chained in place by &.                       *)

\* bound on the number of TensorValidator objects
MaxTensors == 3

\* bound on the number of & operations and calls
MaxAnds == 3

\* PassthroughValidator() three times: no next_validator
InitTensor ==
    /\ heap = [n \in 1..MaxTensors |->
                  [cls |-> "PassthroughValidator", next_validator |-> None]]
    /\ cache = <<>>
    /\ built = {}
    /\ lastOp = [op |-> "none"]
    /\ nOps = 0
    /\ run = IdleRun
    /\ sink = IdleSink
    /\ thr = IdleThreads
    /\ objs = <<>>
    /\ exe = NoExecuters

\* the objects met from n over next_validator, n first, at most k of them
RECURSIVE TensorChain(_, _, _)
TensorChain(h, n, k) ==
    IF n = None \/ k = 0 THEN <<>>
    ELSE <<n>> \o TensorChain(h, h[n].next_validator, k - 1)

\* the while loop of __and__ started at current: the object without a
\* next_validator it stops at, or None when after steps iterations (more
\* than there are objects) it still has not met one: it never will
RECURSIVE LoopToTail(_, _, _)
LoopToTail(h, current, steps) ==
    IF h[current].next_validator = None THEN current
    ELSE IF steps = 0 THEN None
    ELSE LoopToTail(h, h[current].next_validator, steps - 1)

\* res = a & b: TensorValidator.__and__
DoAnd(a, b) ==
    /\ nOps < MaxAnds
    /\ LET tail == IF heap[a].next_validator = None THEN a
                   ELSE LoopToTail(heap, heap[a].next_validator, Len(heap))
       IN IF tail = None
          THEN \* the loop does not end
               /\ lastOp' = [op |-> "and", a |-> a, b |-> b, returns |-> FALSE,
                             res |-> None,
                             before |-> TensorChain(heap, a, Len(heap) + 1),
                             other |-> TensorChain(heap, b, Len(heap) + 1)]
               /\ UNCHANGED heap
          ELSE /\ heap' = [heap EXCEPT ![tail].next_validator = b]
               /\ lastOp' = [op |-> "and", a |-> a, b |-> b, returns |-> TRUE,
                             res |-> a,
                             before |-> TensorChain(heap, a, Len(heap) + 1),
                             other |-> TensorChain(heap, b, Len(heap) + 1)]
    /\ nOps' = nOps + 1
    /\ UNCHANGED <<cache, built, run, sink, thr, objs, exe>>

\* a(operand) with validate returning True on every object:
\* TensorValidator.__call__ calls next_validator until there is none, one
\* frame deeper each time; RecursionError ends a call that goes too deep
DoTensorCall(a) ==
    /\ nOps < MaxAnds
    /\ LET visited == TensorChain(heap, a, RecursionLimit)
       IN lastOp' = [op |-> "call", a |-> a, visited |-> visited,
                     returns |-> heap[visited[Len(visited)]].next_validator = None]
    /\ nOps' = nOps + 1
    /\ UNCHANGED <<heap, cache, built, run, sink, thr, objs, exe>>

NextTensor ==
    \/ \E a, b \in 1..MaxTensors : DoAnd(a, b)
    \/ \E a \in 1..MaxTensors : DoTensorCall(a)

SpecTensor == InitTensor /\ [][NextTensor]_vars

-----------------------------------------------------------------------------
(* Properties of construction and append                                   *)

SameRequest(r1, r2) == r1.cls = r2.cls /\ r1.args = r2.args /\ r1.next = r2.next

\* C1  Interning identity: whatever was constructed or appended before, two
\* constructions with the same class, the same arguments and the same
\* continuation return the same instance.
C1_InterningIdentity ==
    \A r1 \in built, r2 \in built : SameRequest(r1, r2) => r1.res = r2.res

\* a construction that repeats an earlier request has just returned
C1_Witness ==
    /\ lastOp.op = "new"
    /\ lastOp.repeat
    /\ lastOp.next # None

\* C2  Structural distinction: constructions that differ in class, in
\* arguments or in continuation never return the same instance.
C2_StructuralDistinction ==
    \A r1 \in built, r2 \in built : ~SameRequest(r1, r2) => r1.res # r2.res

\* C3  Canonical chains: two chains with the same head-to-tail sequence of
\* (class, constructor arguments) are one object, however they were built.
C3_CanonicalChains ==
    \A n1 \in Nodes, n2 \in Nodes :
        Walk(heap, n1) = Walk(heap, n2) => n1 = n2

\* a chain of three nodes has been obtained by append a second time
C3_Witness ==
    /\ lastOp.op = "append"
    /\ ~lastOp.fresh
    /\ Len(Walk(heap, lastOp.res)) = 3

\* C4  append returns a chain whose sequence is the receiver's sequence
\* followed by the whole sequence of the appended chain; what follows the
\* receiver's old tail is the appended object itself, and the result is not
\* the receiver.
C4_AppendSequence ==
    lastOp.op = "append" =>
        /\ Walk(heap, lastOp.res) = lastOp.selfSeq \o lastOp.otherSeq
        /\ Follow(heap, lastOp.res, lastOp.selfLen) = lastOp.other
        /\ lastOp.res # lastOp.self

C18_CacheGrows ==
    [][\A k \in DOMAIN cache : k \in DOMAIN cache' /\ cache'[k] = cache[k]]_vars

\* an append has added instances to a cache that already held three
C18_Witness ==
    /\ lastOp.op = "append"
    /\ lastOp.fresh
    /\ Cardinality(DOMAIN cache) >= 4
    /\ Len(heap) = Cardinality(DOMAIN cache)

\* C20  A construction with an unhashable leaf fails at construction time
\* with a ValidatorException; no instance is created and the interning
\* cache is unchanged.
C20_UnhashableArgument ==
    lastOp.op = "new_failed" =>
        /\ lastOp.error = "ValidatorException"
        /\ heap = lastOp.heap_before
        /\ cache = lastOp.cache_before

-----------------------------------------------------------------------------
(* Properties of a run                                                     *)

Trace == run.trace

ChainLen == Len(Walk(heap, run.head))

NodeAt(i) == Follow(heap, run.head, i - 1)

EventsOf(beh) == {i \in DOMAIN Trace : Trace[i].beh = beh}

SinkEvents == {i \in DOMAIN Trace : Trace[i].node = None}

\* C6  Chain-predicate short-circuit: on a chain [S, T] where S passes and
\* S's chain_predicate returns False under the context, no behaviour of T is
\* invoked and the run ends in success without the exception sink, whatever
\* T's predicate would do.
C6_ShortCircuit ==
    ( /\ run.pc # "idle"
      /\ ChainLen = 2
      /\ UserPredicate(Cls(NodeAt(1)), run.operand, run.kwargs) = "true"
      /\ UserChainPredicate(Cls(NodeAt(1)), run.kwargs.suppress_errors) = "false" )
    => /\ \A i \in DOMAIN Trace : Trace[i].node # NodeAt(2)
       /\ run.outcome \in {"running", "success"}
       /\ EventsOf("exception_sink") = {}

\* the nodes of [A, B, C] behave: A and B pass and continue, C fails and
\* makes an exception, every handler returns an exception
C7_Case ==
    /\ run.pc # "idle"
    /\ ChainLen = 3
    /\ \A i \in 1..2 :
          /\ UserPredicate(Cls(NodeAt(i)), run.operand, run.kwargs) = "true"
          /\ UserChainPredicate(Cls(NodeAt(i)), run.kwargs.suppress_errors) = "true"
    /\ UserPredicate(Cls(NodeAt(3)), run.operand, run.kwargs) = "false"
    /\ UserCreateException(Cls(NodeAt(3))) = "exc"
    /\ \A i \in 1..3 : UserHandleException(Cls(NodeAt(i))) \in {"same", "new"}

\* C7  Failure propagation order: on [A, B, C] with A and B passing and C
\* failing, the run ends with handle_exception invoked once on C, then B,
\* then A; C receives the exception made by C.create_exception, B and A
\* receive what the handler before them returned, and the final exception
\* sink is invoked last with what A's handler returned.
C7_PropagationOrder ==
    (C7_Case /\ run.pc = "done") =>
        LET n == Len(Trace)
        IN /\ n >= 5
           /\ EventsOf("handle_exception") = {n - 3, n - 2, n - 1}
           /\ EventsOf("create_exception") = {n - 4}
           /\ Trace[n - 4].node = NodeAt(3)
           /\ \A k \in 1..3 :
                 /\ Trace[n - 4 + k].node = NodeAt(4 - k)
                 /\ Trace[n - 4 + k].arg = Trace[n - 5 + k].exc
           /\ Trace[n].beh = "exception_sink"
           /\ Trace[n].arg = Trace[n - 1].exc

\* C8  Nodes are tested head to tail; the walk stops at the first node
\* whose predicate returns False: no later node's predicate or
\* chain_predicate is invoked, create_exception is invoked exactly once and
\* only on that node, and never in a run where every tested node passes.
C8_StopAtFirstFailure ==
    LET preds == EventsOf("predicate")
        creates == EventsOf("create_exception")
        failed == {i \in preds : Trace[i].ret = "false"}
    IN /\ \A i \in preds : Trace[i].node = NodeAt(Cardinality({j \in preds : j <= i}))
       /\ \A i \in failed : \A j \in DOMAIN Trace :
             (j > i /\ Trace[j].beh \in {"predicate", "chain_predicate"})
                => Trace[j].node = Trace[i].node /\ Trace[j].beh # "predicate"
       /\ \A c \in creates : \E i \in failed : i < c /\ Trace[i].node = Trace[c].node
       /\ Cardinality(creates) <= 1
       /\ (run.pc = "done" /\ run.outcome # "contract" /\ failed # {})
             => Cardinality(creates) = 1

WrongTypeReturns == {"nonbool", "nonexc", "none"}

C10_ContractErrorFatal ==
    \A i \in DOMAIN Trace :
        Trace[i].ret \in WrongTypeReturns \cup {"raise"} =>
            /\ i = Len(Trace)
            /\ run.pc = "done"
            /\ SinkEvents = {}
            /\ \A j \in DOMAIN Trace :
                  j # i => ~(Trace[j].node = Trace[i].node /\ Trace[j].beh = Trace[i].beh)

\* a handler misbehaved while handlers of nodes nearer the head were pending
C10_Witness ==
    /\ run.outcome = "contract"
    /\ run.fault.beh = "handle_exception"
    /\ Len(run.handlers) > 1
    /\ run.pc = "done"

\* some tested node's predicate returned False
SomeNodeFailed == \E i \in EventsOf("predicate") : Trace[i].ret = "false"

\* C11  A run that ends without a contract error invokes exactly one
\* terminal sink exactly once: the success sink iff no tested node failed,
\* the exception sink iff some node failed; the sink is the last thing the
\* run does.
C11_ExactlyOneSink ==
    /\ \A i \in SinkEvents : i = Len(Trace)
    /\ (run.pc = "done" /\ run.outcome # "contract") =>
          /\ Cardinality(SinkEvents) = 1
          /\ \A i \in SinkEvents :
                Trace[i].beh = IF SomeNodeFailed THEN "exception_sink"
                               ELSE "success_sink"

\* C12  The call returns an Exception if validation failed at some node and
\* None if every node passed.
C12_ReturnValue ==
    run.pc = "done" =>
        /\ run.outcome = "failure" => run.returned.type = "Exception"
        /\ run.outcome = "success" => run.returned.type = "NoneType"

\* C13  A handle_exception that returns None suppresses the error at that
\* node: no handler of a node nearer the head is invoked afterwards, the
\* final exception sink is not invoked, and the call does not raise.
C13_Suppression ==
    \A i \in EventsOf("handle_exception") :
        Trace[i].ret = "none" =>
            /\ \A j \in EventsOf("handle_exception") : j <= i
            /\ EventsOf("exception_sink") = {}
            /\ run.outcome # "contract"

\* str() of an exception that travels along the handlers: the text given by
\* the node that made it
ExcMessage(e) == {[part |-> "made_by", text |-> Cls(e.origin)]}

\* str() of a ValidatorException: header with the feature, details, tail
\* with the type of the validator
FaultMessage(f) ==
    {[part |-> "feature", text |-> f.beh],
     [part |-> "details", text |-> f.kind],
     [part |-> "type", text |-> f.cls]}

\* str() of the exception that leaves the call, if one does
RaisedMessage == IF run.outcome = "contract" THEN FaultMessage(run.fault) ELSE {}

\* C14  Escalation by re-raise: when the head's handle_exception raises the
\* error it was given, the call raises an error whose message carries the
\* message made by the failing node's create_exception.
C14_Escalation ==
    \A i \in EventsOf("handle_exception") :
        ( /\ Trace[i].ret = "raise"
          /\ Trace[i].node = run.head
          /\ Trace[i].arg.kind = "created" )
        => ExcMessage(Trace[i].arg) \subseteq RaisedMessage

IsHandleEvent(ev) == ev.beh = "handle_exception"

\* the nodes whose handle_exception the run invoked, in order
HandledNodes ==
    LET evs == SelectSeq(Trace, IsHandleEvent)
    IN [i \in 1..Len(evs) |-> evs[i].node]

\* the stepwise run of the eager engine and the recursive function agree
EagerWalkMatchesRun ==
    (run.pc = "done" /\ run.impl = "validator") =>
        LET e == EagerValidate(run.head, <<>>, run.operand)
        IN /\ run.outcome = e.outcome
           /\ HandledNodes = e.handled
           /\ run.outcome = "failure" => run.err = e.err

\* C19  Backend equivalence: on every chain, operand and context the
\* branch-table walk ends with the same pass/fail outcome as the eager walk,
\* has invoked the same handlers in the same order and delivers the same
\* final error.
C19_BackendEquivalence ==
    (run.pc = "done" /\ run.impl = "logic") =>
        LET e == EagerValidate(run.head, <<>>, run.operand)
        IN /\ run.outcome = e.outcome
           /\ HandledNodes = e.handled
           /\ run.outcome = "failure" => run.err = e.err

-----------------------------------------------------------------------------
(* Properties of the callback registry                                     *)

\* C15  Scoped registration restores the previous sink: after an enter
\* followed by its exit, the registered sink of that kind is the one that
\* was registered immediately before the enter, whether the body ended
\* normally or by raising, and the exit does not swallow the exception.
C15_ScopeRestores ==
    sink.last.op = "exit" =>
        /\ GetCallback(sink, sink.last.kind) = sink.last.before
        /\ sink.last.raised => sink.raising

\* the open with-blocks of one kind
ScopesOf(kind) == {i \in DOMAIN sink.stack : sink.stack[i].kind = kind}

\* C16  Scopes of distinct manager objects nest as a stack: inside a scope
\* the registered sink is that scope's sink; after an exit it is the sink of
\* the enclosing scope, and after the outermost exit the sink registered
\* before the outermost enter.
C16_StackDiscipline ==
    /\ (sink.stack # <<>> /\ ~sink.reentry) =>
          \A kind \in Kinds :
             ScopesOf(kind) # {} =>
                LET top == CHOOSE i \in ScopesOf(kind) : \A j \in ScopesOf(kind) : j <= i
                IN GetCallback(sink, kind) = sink.mgr[sink.stack[top].m].new_callback
    /\ (sink.last.op = "exit" /\ ~sink.last.reentered) =>
          GetCallback(sink, sink.last.kind) = sink.last.before

\* the inner of two nested scopes of one kind, made of two manager objects,
\* has been left and the sink of the outer scope is back
C16_Witness ==
    /\ sink.last.op = "exit"
    /\ ~sink.last.reentered
    /\ Len(sink.stack) = 1
    /\ sink.stack[1].kind = sink.last.kind
    /\ sink.stack[1].m # sink.last.m
    /\ sink.last.before # None
    /\ sink.mgr[sink.last.m].new_callback # sink.last.before

-----------------------------------------------------------------------------
(* Properties of concurrent construction                                   *)

\* C17  Interning is atomic per fingerprint: two threads that construct
\* with the same class, arguments and continuation obtain the same
\* instance, and the instance a thread holds as canonical is the one the
\* cache stores for its fingerprint.
C17_AtomicInterning ==
    /\ \A t1 \in Threads, t2 \in Threads :
          ( /\ thr[t1].pc = "done"
            /\ thr[t2].pc = "done"
            /\ thr[t1].req = thr[t2].req )
          => thr[t1].res = thr[t2].res
    /\ \A t \in Threads :
          thr[t].pc = "done" => cache[thr[t].cache_id] = thr[t].res

-----------------------------------------------------------------------------
(* Properties of the context of a call                                     *)

\* the exception classes derived from ValidatorException
ValidatorExceptions ==
    {"ValidatorException", "SubclassDidNotRunException",
     "SubclassReturnedWrongTypeException"}

\* type(err) of the exception that leaves the call, if one does
RaisedType ==
    IF run.outcome # "contract" THEN "none"
    ELSE IF run.fault.kind = "did_not_run"
         THEN "SubclassDidNotRunException"
         ELSE "SubclassReturnedWrongTypeException"

\* C21  Missing context key: a call that reaches a node whose predicate
\* requires the key batch_shape, made without that key, raises an error
\* that is not a ValidatorException (the error kept for misbehaving node
\* code).
C21_MissingContextKey ==
    \A i \in EventsOf("predicate") :
        ( /\ Cls(Trace[i].node) = "BatchShape"
          /\ "batch_shape" \notin DOMAIN run.kwargs )
        => /\ run.pc = "done"
           /\ RaisedType # "none"
           /\ RaisedType \notin ValidatorExceptions

-----------------------------------------------------------------------------
(* Properties of the operations on chains                                  *)

\* C22  Append associativity: (a & b) & c walks as the same sequence of node
\* classes and arguments as a & (b & c).
C22_AppendAssociative ==
    lastOp.op = "assoc" =>
        Walk(heap, lastOp.left) = Walk(heap, lastOp.right)

\* both groupings were formed from three different chains, the first of two
\* nodes, and the result walks as all their nodes
C22_Witness ==
    /\ lastOp.op = "assoc"
    /\ lastOp.a # lastOp.b
    /\ lastOp.b # lastOp.c
    /\ lastOp.a # lastOp.c
    /\ Len(Walk(heap, lastOp.a)) = 2
    /\ Len(Walk(heap, lastOp.right))
          = 2 + Len(Walk(heap, lastOp.b)) + Len(Walk(heap, lastOp.c))

\* C23  insert(chain, index, other), for 0 <= index <= len(chain), gives the
\* chain whose nodes are chain[0:index], then all of other, then
\* chain[index:].
C23_InsertSplices ==
    lastOp.op = "insert" =>
        /\ lastOp.res.ok
        /\ lastOp.res.seq
              = SubSeq(lastOp.chain, 1, lastOp.index) \o lastOp.other
                   \o SubSeq(lastOp.chain, lastOp.index + 1, Len(lastOp.chain))

\* C24  Flatten/unflatten round trip: tree_unflatten of what tree_flatten(c)
\* gave returns the object c itself, and the chain walks as the same classes
\* and arguments in the same order as before.
C24_RoundTrip ==
    lastOp.op = "roundtrip" =>
        /\ lastOp.res = lastOp.c
        /\ Walk(heap, lastOp.res) = lastOp.before

\* a chain of two nodes of different classes, one constructed with an
\* argument, went through the round trip
C24_Witness ==
    /\ lastOp.op = "roundtrip"
    /\ Len(lastOp.before) = 2
    /\ lastOp.before[1].cls # lastOp.before[2].cls
    /\ \E i \in 1..2 : lastOp.before[i].args # <<>>
    /\ lastOp.res = lastOp.c

-----------------------------------------------------------------------------
(* Frame properties of a call                                              *)

C26_RunReadOnly ==
    [][run' # run =>
          /\ heap' = heap
          /\ cache' = cache
          /\ objs' = objs
          /\ exe' = exe]_vars

-----------------------------------------------------------------------------
(* Shape of the interned chains                                            *)

\* C27  No cycle is constructible: from every instance, following
\* next_validator reaches the end of the chain within as many steps as there
\* are instances; and c & c walks as twice as many nodes as c.
C27_Acyclic ==
    /\ \A n \in Nodes : Follow(heap, n, Len(heap)) = None
    /\ ( /\ lastOp.op = "append"
         /\ lastOp.self = lastOp.other )
       => Len(Walk(heap, lastOp.res)) = 2 * lastOp.selfLen

\* a chain of two nodes has been appended to itself
C27_Witness ==
    /\ lastOp.op = "append"
    /\ lastOp.self = lastOp.other
    /\ lastOp.selfLen = 2
    /\ Len(Walk(heap, lastOp.res)) = 4

-----------------------------------------------------------------------------
(* Construction on a cache hit                                             *)

\* C28  On a cache hit the existing instance is returned and __init__ does
\* not run on it again: the attributes of the instance are as they were
\* before the call.
C28_InitOnce ==
    [][( /\ lastOp'.op = "new"
         /\ nOps' # nOps
         /\ ~lastOp'.fresh )
       => /\ lastOp'.res \in Nodes
          /\ objs'[lastOp'.res].inits = objs[lastOp'.res].inits
          /\ objs'[lastOp'.res].item = objs[lastOp'.res].item]_vars

-----------------------------------------------------------------------------
(* The final callbacks                                                     *)

\* C29  The final exception callback of a call is the registered exception
\* callback: whenever a final callback is called with the error of a failed
\* run, it is the exception callback and not the success callback.
C29_RootExceptionCallback ==
    \A i \in SinkEvents :
        Trace[i].arg # NoExc => Trace[i].beh = "exception_sink"

-----------------------------------------------------------------------------
(* Termination of a call                                                   *)

\* the predicate of the last node of the chain was evaluated and passed
LastNodePassed ==
    \E i \in EventsOf("predicate") :
        /\ NextOf(Trace[i].node) = None
        /\ Trace[i].ret = "true"

\* C30  Every call on a finite chain terminates, in success, in failure or
\* with a contract error, after at most one predicate evaluation and at most
\* one handle_exception per node; a call in which the last node passes ends
\* in success.
C30_Terminates ==
    /\ <>( /\ run.pc = "done"
           /\ run.outcome \in {"success", "failure", "contract"} )
    /\ [](\A n \in Nodes :
             /\ Cardinality({i \in EventsOf("predicate") : Trace[i].node = n}) <= 1
             /\ Cardinality({i \in EventsOf("handle_exception") : Trace[i].node = n}) <= 1)
    /\ []((run.pc = "done" /\ LastNodePassed) => run.outcome = "success")

-----------------------------------------------------------------------------
(* Traversal of a chain                                                    *)

\* what a traversal of chain c is to yield: one item per node, head first
ExpectedItems(impl, c) ==
    [i \in 1..heap[c].list_length |->
        IF impl = "Validator" THEN MakeNodeSpec(heap, Follow(heap, c, i - 1))
        ELSE Follow(heap, c, i - 1)]

\* C31  walk(chain, f) and iteration yield one item for each node of the
\* chain, head to tail, and then stop; a second traversal starts at the head
\* again and yields the same sequence.
C31_WalkYieldsEachNodeOnce ==
    /\ lastOp.op \in {"walk", "walk_again"} =>
          /\ lastOp.first.stops
          /\ lastOp.first.seq = ExpectedItems(lastOp.impl, lastOp.c)
    /\ lastOp.op = "walk_again" =>
          /\ lastOp.again.stops
          /\ lastOp.again.seq = lastOp.first.seq

-----------------------------------------------------------------------------
(* The switch table of LogicNode                                           *)

\* what the invocation of behaviour beh on node n returned, "" if there was
\* no such invocation
ReturnedBy(n, beh) ==
    IF \E i \in DOMAIN run.trace : run.trace[i].node = n /\ run.trace[i].beh = beh
    THEN LET i == CHOOSE i \in DOMAIN run.trace :
                     run.trace[i].node = n /\ run.trace[i].beh = beh
         IN run.trace[i].ret
    ELSE ""

\* C32  make_switch_case returns 0 exactly when the predicate fails, 1 when it
\* passes and there is no next node or chain_predicate returns False, 2 when
\* it passes, a next node exists and chain_predicate returns True; it returns
\* no other index.
C32_SwitchCase ==
    \A i \in DOMAIN run.cases :
        LET n == run.cases[i].node
            index == run.cases[i].index
            passes == ReturnedBy(n, "predicate") = "true"
            continues == /\ NextOf(n) # None
                         /\ UserChainPredicate(Cls(n), run.kwargs.suppress_errors) = "true"
        IN /\ index \in {0, 1, 2}
           /\ index = 0 <=> ~passes
           /\ index = 1 <=> passes /\ ~continues
           /\ index = 2 <=> passes /\ continues

\* a call in which index 2 was returned for one node and index 1 for the
\* next, which has a continuation but a chain predicate that said False
C32_Witness ==
    /\ run.impl = "logic"
    /\ \E i, j \in DOMAIN run.cases :
          /\ run.cases[i].index = 2
          /\ run.cases[j].index = 1 /\ NextOf(run.cases[j].node) # None

-----------------------------------------------------------------------------
(* When the chain predicate is consulted                                   *)

\* C33  A node's chain_predicate is invoked only after that node's own
\* predicate has passed and only when the node has a continuation: never on
\* a node whose predicate failed, nor on the last node of a chain.
C33_ChainPredicateAfterPass ==
    \A j \in DOMAIN run.trace :
        run.trace[j].beh = "chain_predicate" =>
            /\ NextOf(run.trace[j].node) # None
            /\ \E i \in 1..(j - 1) :
                  /\ run.trace[i].node = run.trace[j].node
                  /\ run.trace[i].beh = "predicate"
                  /\ run.trace[i].ret = "true"

-----------------------------------------------------------------------------
(* The chain of logic nodes of an executor                                 *)

\* C34  build_list(nodes) returns a linked chain of exactly len(nodes) logic
\* nodes, the i-th wrapping nodes[i] and linking to the logic node built for
\* nodes[i+1], the last one without a next node; building from an equal node
\* list returns the cached chain.
C34_BuildList ==
    lastOp.op = "build_list" =>
        LET chain == LogicChain(exe, lastOp.res)
        IN /\ Len(chain) = Len(lastOp.nodes)
           /\ \A i \in DOMAIN chain :
                 /\ exe.LogicNodes[chain[i]].subclass_functions.kind = "subclass"
                 /\ exe.LogicNodes[chain[i]].subclass_functions.ref = lastOp.nodes[i]
           /\ lastOp.again = lastOp.res

-----------------------------------------------------------------------------
(* The cached attributes of the list nodes                                 *)

\* C35  Cached derived values never go stale: after any number of append or
\* insert calls the cached length, key() and as_keylist() of a chain equal
\* the values computed from its links; append does not alter the list that
\* as_keylist returns for the receiver.
C35_CachedValuesFresh ==
    LET la == exe.LinkAttrCache
    IN /\ \A entry \in la.length : entry.value = Len(Links(heap, entry.self))
       /\ \A entry \in la.key : entry.value = Links(heap, entry.self)
       /\ \A entry \in la.as_list :
             /\ Len(entry.value) = Len(Links(heap, entry.self))
             /\ \A i \in DOMAIN entry.value :
                   entry.value[i] = ListItem("key", Links(heap, entry.self)[i])

-----------------------------------------------------------------------------
(* Cache.fetch                                                             *)

\* C36  Cache.fetch is insert-if-absent: the first call for a key runs the
\* constructor once and stores the result, every later call with an equal
\* key returns the stored instance without running the constructor again,
\* and the entries under other keys are left unchanged.
C36_FetchInsertIfAbsent ==
    [][/\ \A entry \in exe.LogicNodesCache : entry \in exe'.LogicNodesCache
       /\ \A e1, e2 \in exe'.LogicNodesCache : e1.key = e2.key => e1 = e2
       /\ Cardinality({entry \in exe'.LogicNodesCache :
                          entry.key.constructor = "LogicNode"})
             = Len(exe'.LogicNodes)
       /\ lastOp'.op = "build_list" =>
             /\ lastOp'.again = lastOp'.res
             /\ Len(exe'.LogicNodes) = lastOp'.made]_vars

\* a list of two or more nodes was built over a cache that held the
\* entries of an earlier list, and built again
C36_Witness ==
    /\ lastOp.op = "build_list"
    /\ nOps = 2
    /\ Len(lastOp.nodes) >= 2
    /\ lastOp.again = lastOp.res
    /\ Len(exe.LogicNodes) >= 3
    /\ Cardinality(exe.LogicNodesCache) >= 4

-----------------------------------------------------------------------------
(* The sinks of a call                                                     *)

\* C37  A call delivers its terminal success or failure to the sink in effect
\* when the call is made: inside a scope to the scope's sink, after the scope
\* to the restored sink, none standing for a no-op, whatever sink was
\* registered when the chain or its executor was first built.
C37_SinkAtCallTime ==
    lastOp.op = "call" => lastOp.delivered = lastOp.registered

-----------------------------------------------------------------------------
(* Scopes of two threads                                                   *)

\* C38  Two threads each enter and later exit a sink scope of their own:
\* under every interleaving of their steps, the sinks registered once both
\* have exited are the sinks registered before either entered.
C38_ScopesOfThreadsRestore ==
    (\A t \in Threads : thr[t].pc = "exited") =>
        /\ sink.final_callback = lastOp.final_callback
        /\ sink.success_callback = lastOp.success_callback

-----------------------------------------------------------------------------
(* One manager entered twice                                               *)

\* C39  A context manager object that is entered a second time while it is
\* active, and then exited twice, restores the sink that was registered
\* before the first enter: the step below is the second of the two exits.
C39_ReentryRestores ==
    [][(/\ Len(sink.stack) = 1
        /\ sink.last.op = "exit"
        /\ sink.last.m = sink.stack[1].m
        /\ sink'.stack = <<>>)
          => GetCallback(sink', sink.stack[1].kind) = sink.stack[1].before]_vars

-----------------------------------------------------------------------------
(* Chains of TensorValidator                                               *)

\* no object occurs twice on the way from n over next_validator
TensorAcyclic(n) ==
    LET chain == TensorChain(heap, n, Len(heap) + 1)
    IN /\ Len(chain) <= Len(heap)
       /\ \A i, j \in DOMAIN chain : chain[i] = chain[j] => i = j

\* C40  a & other attaches other after the current tail of a and returns a;
\* the chain stays acyclic after any sequence of & operations, a & a and
\* attaching a chain that contains the receiver included, so that a later
\* call visits each validator at most once and terminates.
C40_AndKeepsChainAcyclic ==
    /\ \A n \in DOMAIN heap : TensorAcyclic(n)
    /\ lastOp.op = "and" =>
          /\ lastOp.returns
          /\ lastOp.res = lastOp.a
          /\ TensorChain(heap, lastOp.a, Len(heap) + 1) = lastOp.before \o lastOp.other
    /\ lastOp.op = "call" =>
          /\ lastOp.returns
          /\ \A i, j \in DOMAIN lastOp.visited :
                lastOp.visited[i] = lastOp.visited[j] => i = j

====
